---- MODULE Spec2Model ----
(***************************************************************************)
(* Model of the difpy diffusion engine: simulation_step, simulation,       *)
(* simulation_sequence (simulate.py) and optimize_rs (optimize.py).        *)
(*                                                                         *)
(* Real numbers are fixed point: traits, weights and uniform draws are     *)
(* integers counting millionths (the precision of np.round(x, 6)), and     *)
(* probabilities and averages are exact fractions.  Products that exceed   *)
(* the machine integer are computed on digit sequences (Big operators).    *)
(***************************************************************************)
EXTENDS Integers, Sequences, FiniteSets, TLC

\* ------------------------------------------------------------------ bounds
\* largest horizon n drawn for simulation
MaxSteps == 2
\* largest sequence_len drawn for simulation_sequence
MaxSeqLen == 2
\* largest number_of_iter drawn for optimize_rs
MaxIter == 2

\* ------------------------------------------------------- program constants
\* np.round(..., 6): engagement is kept to six decimals
Decimals == 6
\* one unit (1.0) in millionths
Unit == 10 ^ Decimals
\* graph_init replaces a scaled value of exactly 0 by 0.000001
Epsilon == 1
\* default WERE_multiplier of simulation_step
WERE_multiplier_default == 10

\* ------------------------------------------------------- exact arithmetic
RECURSIVE GCD(_, _)
GCD(a, b) == IF b = 0 THEN a ELSE GCD(b, a % b)

Abs(a) == IF a < 0 THEN 0 - a ELSE a

\* a fraction <<numerator, denominator>> in lowest terms, denominator > 0
RatNorm(num, den) ==
    LET g == GCD(Abs(num), den)
    IN  IF num = 0 THEN <<0, 1>> ELSE <<num \div g, den \div g>>

RatAdd(a, b) == RatNorm(a[1] * b[2] + b[1] * a[2], a[2] * b[2])
RatLess(a, b) == a[1] * b[2] < b[1] * a[2]
RatLeq(a, b) == a[1] * b[2] <= b[1] * a[2]

\* non-negative integers of any size: little-endian digits in base 10000
RECURSIVE Big(_)
Big(k) == IF k = 0 THEN <<>> ELSE <<k % 10000>> \o Big(k \div 10000)

RECURSIVE BigNorm(_)
BigNorm(a) ==
    IF a = <<>> THEN <<>>
    ELSE IF a[Len(a)] = 0 THEN BigNorm(SubSeq(a, 1, Len(a) - 1)) ELSE a

RECURSIVE BigAddC(_, _, _)
BigAddC(a, b, c) ==
    IF a = <<>> /\ b = <<>> THEN (IF c = 0 THEN <<>> ELSE <<c>>)
    ELSE LET x == IF a = <<>> THEN 0 ELSE Head(a)
             y == IF b = <<>> THEN 0 ELSE Head(b)
             s == x + y + c
         IN  <<s % 10000>> \o BigAddC(IF a = <<>> THEN <<>> ELSE Tail(a),
                                      IF b = <<>> THEN <<>> ELSE Tail(b),
                                      s \div 10000)

RECURSIVE BigMulDigit(_, _, _)
BigMulDigit(a, d, c) ==
    IF a = <<>> THEN (IF c = 0 THEN <<>> ELSE <<c>>)
    ELSE LET s == Head(a) * d + c
         IN  <<s % 10000>> \o BigMulDigit(Tail(a), d, s \div 10000)

RECURSIVE BigMul(_, _)
BigMul(a, b) ==
    IF b = <<>> THEN <<>>
    ELSE BigNorm(BigAddC(BigMulDigit(a, Head(b), 0),
                         <<0>> \o BigMul(a, Tail(b)), 0))

RECURSIVE BigLessFrom(_, _, _)
BigLessFrom(a, b, i) ==
    IF i = 0 THEN FALSE
    ELSE IF a[i] # b[i] THEN a[i] < b[i] ELSE BigLessFrom(a, b, i - 1)

BigLess(a, b) ==
    LET x == BigNorm(a)
        y == BigNorm(b)
    IN  IF Len(x) # Len(y) THEN Len(x) < Len(y) ELSE BigLessFrom(x, y, Len(x))

\* a probability is a fraction of two Big numbers
Prob(num, den) == [num |-> num, den |-> den]

\* mutants of Bernoulli: the comparison turned round, and <= for <
Bernoulli_reversed(d, p) == BigLess(BigMul(p.num, Big(Unit)), BigMul(Big(d), p.den))
Bernoulli_leq(d, p) == ~BigLess(BigMul(p.num, Big(Unit)), BigMul(Big(d), p.den))

\* np.random.uniform(0, 1) < p, the draw d counted in millionths
Bernoulli(d, p) == BigLess(BigMul(Big(d), p.den), BigMul(p.num, Big(Unit)))

\* ------------------------------------------------------------------ graph
\* A graph value: nodes in iteration order, adjacency lists in insertion
\* order, symmetric edge weights, and the attribute dictionary of each node.
Nodes == <<0, 1, 2>>

NodeSet == {Nodes[i] : i \in 1..Len(Nodes)}

\* G.neighbors(v): the neighbours of v in the order the edges were added
RECURSIVE AdjOf(_, _)
AdjOf(edges, v) ==
    IF edges = <<>> THEN <<>>
    ELSE LET e == Head(edges)
         IN  (IF e[1] = v THEN <<e[2]>>
              ELSE IF e[2] = v THEN <<e[1]>> ELSE <<>>) \o AdjOf(Tail(edges), v)

EdgePairs(edges) ==
    {<<edges[i][1], edges[i][2]>> : i \in 1..Len(edges)}
        \cup {<<edges[i][2], edges[i][1]>> : i \in 1..Len(edges)}

\* the graph with the given node sequence, edge list, one weight on every
\* edge, Aware set and node traits
MkGraph(nodes, edges, w, awareSet, rec, ext, eng) ==
    [nodes |-> nodes,
     adj |-> [v \in {nodes[i] : i \in 1..Len(nodes)} |-> AdjOf(edges, v)],
     weight |-> [p \in EdgePairs(edges) |-> w],
     data |-> [v \in {nodes[i] : i \in 1..Len(nodes)} |->
                 [state |-> IF v \in awareSet THEN "aware" ELSE "unaware",
                  receptiveness |-> rec[v],
                  extraversion |-> ext[v],
                  engagement |-> eng[v]]]]

NodesOf(g) == {g.nodes[i] : i \in 1..Len(g.nodes)}

AwareSet(g) == {v \in NodesOf(g) : g.data[v].state = "aware"}

\* [d['state'] for i, d in G.nodes.data() if i in G.neighbors(v)].count('aware')
AwareNeighbours(g, v) ==
    Cardinality({u \in NodesOf(g) :
                   /\ \E j \in 1..Len(g.adj[v]) : g.adj[v][j] = u
                   /\ g.data[u].state = "aware"})

SetState(g, v, s) == [g EXCEPT !.data[v].state = s]

SetEngagement(g, v, e) == [g EXCEPT !.data[v].engagement = e]

\* copy.deepcopy(list(G.nodes.data())): the (node, attributes) pairs
Snapshot(g) == [i \in 1..Len(g.nodes) |-> <<g.nodes[i], g.data[g.nodes[i]]>>]

\* [entry[1]['state'] for entry in snapshot].count('aware')
AwareCount(snap) ==
    Cardinality({i \in 1..Len(snap) : snap[i][2].state = "aware"})

\* ---------------------------------------------------------------- inputs
\* the values a uniform draw takes in the model, in millionths of [0, 1)
DrawSet == {0, Epsilon, 500000, 999999}

\* engagement_enforcement in hundredths
EnforcementSet == {0, 100, 150}

\* the weight put on every edge of an input graph
WeightSet == {500000, Unit}

\* edge lists of the input graphs: a path, and a pair beside a lone node
TopologySet == {<< <<0, 1>>, <<1, 2>> >>, << <<0, 1>> >>}

Receptiveness0 == (0 :> 200000) @@ (1 :> Unit) @@ (2 :> 500000)
Extraversion0 == (0 :> Unit) @@ (1 :> 300000) @@ (2 :> 100000)
Engagement0 == (0 :> 800000) @@ (1 :> 500000) @@ (2 :> Unit)

\* a custom_kernel(n, neighbour) a caller may pass
CustomKernelFn(n, neighbour) == IF n < neighbour THEN Unit ELSE 250000

\* ----------------------------------------------------------------- state
VARIABLES
    G,                      \* the caller's graph object
    G_zero,                 \* the per-trial copy of simulation_sequence: <<>> or <<graph>>
    copy_id,                \* identity of the object G_zero is bound to (0: none yet)
    target,                 \* the object simulation / simulation_step works on: "G" or "G_zero"
    cfg,                    \* the arguments of the call
    pc,                     \* position in the program
    error,                  \* the exception that ended the call, "" if none
    nidx,                   \* simulation_step: index of n in G.nodes()
    nbidx,                  \* simulation_step: index of neighbour in G.neighbors(n)
    i_sim,                  \* simulation: steps completed
    graph_list,             \* simulation: the snapshots
    avg_aware_inc_per_step, \* simulation: returned average, <<>> before the return
    i_seq,                  \* simulation_sequence: trials completed
    avg_inc,                \* simulation_sequence: per-trial averages
    avg_aware_inc,          \* simulation_sequence: returned mean, <<>> before the return
    i_opt,                  \* optimize_rs: iterations completed
    infected_agents_id,     \* optimize_rs: the sampled seed list
    candidate_solution,     \* optimize_rs: score of the current candidate
    best_solution,          \* optimize_rs: [score, seed list]
    G_call,                 \* history: the caller's graph when the call was made
    trial_start,            \* history: the graph each trial of the running sequence started from
    trial_ids,              \* history: the object identity of each trial's copy
    evaluated,              \* history: the <<seed list, score>> pairs optimize_rs has scored
    thr,                    \* the simulation_step executions that share the module: one record each
    global_neighbour,       \* the module global `neighbour` of simulate.py: <<>> or <<node>>
    sched,                  \* how those executions are scheduled: "serial" or "parallel"
    i_nss,                  \* nodes_score_simulation: passes of its loop completed
    list_solution,          \* nodes_score_simulation: the scores collected
    resolution              \* input: engagement values are counted in 1 / (Unit * resolution), 1 when they carry six decimals

vars == <<G, G_zero, copy_id, target, cfg, pc, error, nidx, nbidx, i_sim,
          graph_list, avg_aware_inc_per_step, i_seq, avg_inc, avg_aware_inc,
          i_opt, infected_agents_id, candidate_solution, best_solution,
          G_call, trial_start, trial_ids, evaluated, thr, global_neighbour, sched,
          i_nss, list_solution, resolution>>

thrVars == <<thr, global_neighbour, sched>>
nssVars == <<i_nss, list_solution>>

stepVars == <<nidx, nbidx>>
simVars == <<i_sim, graph_list, avg_aware_inc_per_step>>
seqVars == <<G_zero, copy_id, i_seq, avg_inc, avg_aware_inc, trial_start, trial_ids>>
optVars == <<i_opt, infected_agents_id, candidate_solution, best_solution, evaluated>>

\* the graph object the running simulation works on
Cur == IF target = "G" THEN G ELSE G_zero[1]

\* mutant of Store: the writes go to a copy of the caller's graph
Store_copy(g) == G_zero' = <<g>> /\ G' = G

\* in-place mutation of that object
Store(g) ==
    IF target = "G" THEN G' = g /\ G_zero' = G_zero
    ELSE G_zero' = <<g>> /\ G' = G

\* --------------------------------------------------------- simulation_step
\* mutant of Round6Mul: the product is cut after six decimals
Round6Mul_truncated(e, enf) ==
    LET D == 100 * resolution
    IN  resolution * ((e \div D) * enf + ((e % D) * enf) \div D)

\* np.round(e * enf, 6) for enf in hundredths and e counted in
\* 1 / (Unit * resolution) (millionths when the values carry six decimals),
\* rounding half to even; the result is a whole number of millionths
Round6Mul(e, enf) ==
    LET D == 100 * resolution
        a == e \div D
        b == e % D
        q == a * enf + (b * enf) \div D
        r == (b * enf) % D
    IN  resolution * (IF 2 * r < D THEN q
                      ELSE IF 2 * r > D THEN q + 1
                      ELSE IF q % 2 = 0 THEN q ELSE q + 1)

\* e * enf > 1
MulExceedsOne(e, enf) ==
    LET a == e \div 100
        b == e % 100
        q == a * enf + (b * enf) \div 100
        r == (b * enf) % 100
    IN  q > Unit * resolution \/ (q = Unit * resolution /\ r > 0)

\* mutant of OblivionEnabled: the flag is not consulted
OblivionEnabled_always(oblivion) == TRUE

\* oblivion == True
OblivionEnabled(oblivion) == oblivion = TRUE

\* oblivion_factor * random_factor
OblivionProb(g, n, random_factor) ==
    LET aware == AwareNeighbours(g, n)
        unaware == Len(g.adj[n]) - aware
    IN  Prob(BigMul(Big(10000 * unaware + 1), Big(random_factor)),
             BigMul(Big((10000 * aware + 1) + (10000 * unaware + 1)), Big(Unit)))

\* mutant of OblivionEngagement: the cap min(1, .) is missing
OblivionEngagement_uncapped(e, enf) == Round6Mul(e, enf)

\* np.round(min(1, engagement * engagement_enforcement), 6)
OblivionEngagement(e, enf) ==
    IF MulExceedsOne(e, enf) THEN Unit * resolution ELSE Round6Mul(e, enf)

\* the draws the oblivion block of node n consumes: two uniform draws when
\* the block is entered, none (a placeholder) otherwise
OblivionDraws(g, n, oblivion) ==
    IF OblivionEnabled(oblivion) /\ g.data[n].state = "aware" THEN DrawSet ELSE {0}

\* mutant of OblivionPhase: the test that n is aware is missing
OblivionPhase_anystate(g, n, random_factor, r2, oblivion, enf) ==
    IF OblivionEnabled(oblivion)
    THEN IF Bernoulli(r2, OblivionProb(g, n, random_factor))
         THEN SetEngagement(SetState(g, n, "unaware"), n,
                            OblivionEngagement(g.data[n].engagement, enf))
         ELSE g
    ELSE g

\* the oblivion block of node n, with its two uniform draws
OblivionPhase(g, n, random_factor, r2, oblivion, enf) ==
    IF OblivionEnabled(oblivion) /\ g.data[n].state = "aware"
    THEN IF Bernoulli(r2, OblivionProb(g, n, random_factor))
         THEN SetEngagement(SetState(g, n, "unaware"), n,
                            OblivionEngagement(g.data[n].engagement, enf))
         ELSE g
    ELSE g

\* kernel 'weights'
WeightsKernel(g, n, neighbour) == Prob(Big(g.weight[<<n, neighbour>>]), Big(Unit))

\* mutant of WEREKernel: the roles of sender and receiver are exchanged
WEREKernel_reversed(g, n, neighbour, multiplier) ==
    Prob(BigMul(BigMul(BigMul(BigMul(Big(g.weight[<<n, neighbour>>]),
                                     Big(g.data[n].receptiveness)),
                              Big(g.data[n].engagement)),
                       Big(g.data[neighbour].extraversion)),
                Big(multiplier)),
         BigMul(BigMul(BigMul(Big(Unit), Big(Unit)),
                       BigMul(Big(Unit), Big(Unit))),
                Big(resolution)))

\* kernel 'WERE'
WEREKernel(g, n, neighbour, multiplier) ==
    Prob(BigMul(BigMul(BigMul(BigMul(Big(g.weight[<<n, neighbour>>]),
                                     Big(g.data[neighbour].receptiveness)),
                              Big(g.data[neighbour].engagement)),
                       Big(g.data[n].extraversion)),
                Big(multiplier)),
         BigMul(BigMul(BigMul(Big(Unit), Big(Unit)),
                       BigMul(Big(Unit), Big(Unit))),
                Big(resolution)))

\* prob_of_internalization for the selected kernel
KernelProb(g, n, neighbour, c) ==
    IF c.kernel = "weights" THEN WeightsKernel(g, n, neighbour)
    ELSE IF c.kernel = "WERE" THEN WEREKernel(g, n, neighbour, c.WERE_multiplier)
    ELSE Prob(Big(CustomKernelFn(n, neighbour)), Big(Unit))

\* the draw a neighbour visit consumes: one uniform draw for an unaware
\* neighbour, none (a placeholder) otherwise
NeighbourDraws(g, neighbour) ==
    IF g.data[neighbour].state = "unaware" THEN DrawSet ELSE {0}

\* mutant of Reinforce: the product is capped at 1 as in the oblivion path
Reinforce_capped(e, enf) ==
    IF MulExceedsOne(e, enf) THEN Unit * resolution ELSE Round6Mul(e, enf)

\* np.round(engagement * engagement_enforcement, 6)
Reinforce(e, enf) == Round6Mul(e, enf)

\* mutant of NeighbourVisit: the awakening is not written to the live graph
NeighbourVisit_stale(g, n, neighbour, d, c) ==
    IF g.data[neighbour].state = "unaware"
    THEN g
    ELSE SetEngagement(g, neighbour,
                       Reinforce(g.data[neighbour].engagement,
                                 c.engagement_enforcement))

\* the body of the neighbour loop for one neighbour, with its uniform draw
NeighbourVisit(g, n, neighbour, d, c) ==
    IF g.data[neighbour].state = "unaware"
    THEN IF Bernoulli(d, KernelProb(g, n, neighbour, c))
         THEN SetState(g, neighbour, "aware")
         ELSE g
    ELSE SetEngagement(g, neighbour,
                       Reinforce(g.data[neighbour].engagement,
                                 c.engagement_enforcement))

\* custom_kernel(n, neighbour) with custom_kernel = None
CustomKernelMissing(g, neighbour, c) ==
    /\ g.data[neighbour].state = "unaware"
    /\ c.kernel = "custom"
    /\ c.custom_kernel = "None"

\* mutant of StillAware: the neighbour loop is entered for every node
StillAware_any(g, n) == TRUE

\* if G.nodes[n]['state'] == 'aware': the test before the neighbour loop
StillAware(g, n) == g.data[n].state = "aware"

\* for n in G.nodes(): the oblivion block and the test that n is still aware
simulation_step_node ==
    /\ pc = "step_node"
    /\ nidx <= Len(Cur.nodes)
    /\ \E random_factor, r2 \in OblivionDraws(Cur, Cur.nodes[nidx], cfg.oblivion) :
         LET n == Cur.nodes[nidx]
             g1 == OblivionPhase(Cur, n, random_factor, r2, cfg.oblivion,
                                 cfg.engagement_enforcement)
         IN  /\ Store(g1)
             /\ IF StillAware(g1, n) /\ Len(g1.adj[n]) > 0
                THEN pc' = "step_nb" /\ nidx' = nidx /\ nbidx' = 1
                ELSE pc' = "step_node" /\ nidx' = nidx + 1 /\ nbidx' = 0
    /\ UNCHANGED <<copy_id, target, cfg, error, simVars, i_seq, avg_inc,
                   avg_aware_inc, trial_start, trial_ids, optVars, G_call, thrVars,
                   nssVars, resolution>>

\* for neighbour in G.neighbors(n): one pass of the loop body
simulation_step_neighbour ==
    /\ pc = "step_nb"
    /\ LET n == Cur.nodes[nidx]
           neighbour == Cur.adj[n][nbidx]
       IN  IF CustomKernelMissing(Cur, neighbour, cfg)
           THEN /\ pc' = "error"
                /\ error' = "TypeError"
                /\ UNCHANGED <<G, G_zero, nidx, nbidx>>
           ELSE /\ \E d \in NeighbourDraws(Cur, neighbour) :
                     Store(NeighbourVisit(Cur, n, neighbour, d, cfg))
                /\ error' = error
                /\ IF nbidx < Len(Cur.adj[n])
                   THEN pc' = "step_nb" /\ nidx' = nidx /\ nbidx' = nbidx + 1
                   ELSE pc' = "step_node" /\ nidx' = nidx + 1 /\ nbidx' = 0
    /\ UNCHANGED <<copy_id, target, cfg, simVars, i_seq, avg_inc,
                   avg_aware_inc, trial_start, trial_ids, optVars, G_call, thrVars,
                   nssVars, resolution>>

\* return G, for a direct call of simulation_step
simulation_step_return ==
    /\ pc = "step_node"
    /\ nidx > Len(Cur.nodes)
    /\ cfg.entry = "simulation_step"
    /\ pc' = "done"
    /\ UNCHANGED <<G, G_zero, copy_id, target, cfg, error, stepVars, simVars,
                   i_seq, avg_inc, avg_aware_inc, trial_start, trial_ids,
                   optVars, G_call, thrVars,
                   nssVars, resolution>>

\* ------------------------------------------------------------- simulation
\* mutant of AfterSnapshot: the loop makes one pass too many
AfterSnapshot_extra(done, n) == IF done <= n THEN "step_node" ELSE "sim_count"

\* where simulation goes after a snapshot: the next step or the counting
AfterSnapshot(done, n) == IF done < n THEN "step_node" ELSE "sim_count"

\* graph_list = [] ; graph_list.append(deepcopy(list(G.nodes.data())))
simulation_call ==
    /\ pc = "sim_call"
    /\ graph_list' = <<Snapshot(Cur)>>
    /\ i_sim' = 0
    /\ avg_aware_inc_per_step' = <<>>
    /\ pc' = AfterSnapshot(0, cfg.n)
    /\ nidx' = 1
    /\ nbidx' = 0
    /\ UNCHANGED <<G, G_zero, copy_id, target, cfg, error, i_seq, avg_inc,
                   avg_aware_inc, trial_start, trial_ids, optVars, G_call, thrVars,
                   nssVars, resolution>>

\* mutant of Capture: the entries share the attributes of the live graph,
\* so every entry shows the values of the latest capture
Capture_shared(gl, g) == [j \in 1..(Len(gl) + 1) |-> Snapshot(g)]

\* graph_list.append(copy.deepcopy(list(G.nodes.data())))
Capture(gl, g) == Append(gl, Snapshot(g))

\* simulation_step returned inside simulation:
\* graph_list.append(deepcopy(list(G.nodes.data()))) and the next pass
simulation_snapshot ==
    /\ pc = "step_node"
    /\ nidx > Len(Cur.nodes)
    /\ cfg.entry # "simulation_step"
    /\ graph_list' = Capture(graph_list, Cur)
    /\ i_sim' = i_sim + 1
    /\ pc' = AfterSnapshot(i_sim + 1, cfg.n)
    /\ nidx' = 1
    /\ nbidx' = 0
    /\ UNCHANGED <<G, G_zero, copy_id, target, cfg, error,
                   avg_aware_inc_per_step, i_seq, avg_inc, avg_aware_inc,
                   trial_start, trial_ids, optVars, G_call, thrVars,
                   nssVars, resolution>>

\* mutant of AvgAwareIncPerStep: the difference is not divided by n
AvgAwareIncPerStep_total(gl, n) ==
    RatNorm(AwareCount(gl[Len(gl)]) - AwareCount(gl[1]), 1)

\* mutant of AvgAwareIncPerStep: the first count minus the last
AvgAwareIncPerStep_reversed(gl, n) ==
    RatNorm(AwareCount(gl[1]) - AwareCount(gl[Len(gl)]), n)

\* (aware_last_c - aware_first_c) / n
AvgAwareIncPerStep(gl, n) ==
    RatNorm(AwareCount(gl[Len(gl)]) - AwareCount(gl[1]), n)

\* the counting loops and the return of simulation
simulation_return ==
    /\ pc = "sim_count"
    /\ IF Len(graph_list[1]) = 0
       THEN /\ pc' = "error"
            /\ error' = "UnboundLocalError"
            /\ UNCHANGED avg_aware_inc_per_step
       ELSE IF cfg.n = 0
       THEN /\ pc' = "error"
            /\ error' = "ZeroDivisionError"
            /\ UNCHANGED avg_aware_inc_per_step
       ELSE /\ avg_aware_inc_per_step' = AvgAwareIncPerStep(graph_list, cfg.n)
            /\ pc' = IF cfg.entry = "simulation" THEN "done" ELSE "seq_append"
            /\ error' = error
    /\ UNCHANGED <<G, G_zero, copy_id, target, cfg, stepVars, i_sim, graph_list,
                   i_seq, avg_inc, avg_aware_inc, trial_start, trial_ids,
                   optVars, G_call, thrVars,
                   nssVars, resolution>>

\* ---------------------------------------------------- simulation_sequence
\* mutant of DeepCopySource: the copy is taken from the previous trial's graph
DeepCopySource_previous(g, gz) == IF gz = <<>> THEN g ELSE gz[1]

\* the graph handed to copy.deepcopy
DeepCopySource(g, gz) == g

\* a deep copy is a new object
NewObjectId(last) == last + 1

\* mutant of TrialTarget: simulation is called on G itself
TrialTarget_caller == "G"

\* the object handed to simulation: the copy G_zero
TrialTarget == "G_zero"

RECURSIVE RatSum(_)
RatSum(q) == IF q = <<>> THEN <<0, 1>> ELSE RatAdd(Head(q), RatSum(Tail(q)))

\* mutant of Mean: the sum is not divided by the number of trials
Mean_sum(q) == RatSum(q)

\* sum(avg_inc) / len(avg_inc)
Mean(q) == LET t == RatSum(q) IN RatNorm(t[1], t[2] * Len(q))

\* G_zero = copy.deepcopy(G) and the call of simulation on it
simulation_sequence_trial ==
    /\ pc = "seq_loop"
    /\ i_seq < cfg.sequence_len
    /\ G_zero' = <<DeepCopySource(G, G_zero)>>
    /\ copy_id' = NewObjectId(copy_id)
    /\ target' = TrialTarget
    /\ trial_start' = Append(trial_start,
                             IF target' = "G" THEN G ELSE G_zero'[1])
    /\ trial_ids' = Append(trial_ids, copy_id')
    /\ pc' = "sim_call"
    /\ UNCHANGED <<G, cfg, error, stepVars, simVars, i_seq, avg_inc,
                   avg_aware_inc, optVars, G_call, thrVars,
                   nssVars, resolution>>

\* avg_inc.append(avg_aware_inc_per_step)
simulation_sequence_append ==
    /\ pc = "seq_append"
    /\ avg_inc' = Append(avg_inc, avg_aware_inc_per_step)
    /\ i_seq' = i_seq + 1
    /\ pc' = "seq_loop"
    /\ UNCHANGED <<G, G_zero, copy_id, target, cfg, error, stepVars, simVars,
                   avg_aware_inc, trial_start, trial_ids, optVars, G_call, thrVars,
                   nssVars, resolution>>

\* avg_aware_inc = sum(avg_inc) / len(avg_inc) ; return avg_aware_inc
simulation_sequence_return ==
    /\ pc = "seq_loop"
    /\ i_seq >= cfg.sequence_len
    /\ IF Len(avg_inc) = 0
       THEN /\ pc' = "error"
            /\ error' = "ZeroDivisionError"
            /\ UNCHANGED avg_aware_inc
       ELSE /\ avg_aware_inc' = Mean(avg_inc)
            /\ pc' = IF cfg.entry = "simulation_sequence" THEN "done"
                     ELSE IF cfg.entry = "optimize_rs" THEN "opt_cmp"
                     ELSE "nss_append"
            /\ error' = error
    /\ UNCHANGED <<G, G_zero, copy_id, target, cfg, stepVars, simVars, i_seq,
                   avg_inc, trial_start, trial_ids, optVars, G_call, thrVars,
                   nssVars, resolution>>

\* ------------------------------------------------------------ optimize_rs
\* mutant of ResetStates: the states are left as they were
ResetStates_kept(g) == g

\* nx.set_node_attributes(G, 'unaware', 'state')
ResetStates(g) ==
    [g EXCEPT !.data = [v \in DOMAIN g.data |-> [g.data[v] EXCEPT !.state = "unaware"]]]

\* mutant of MarkAware: only the first sampled node is marked
MarkAware_first(g, ids) ==
    [g EXCEPT !.data = [v \in DOMAIN g.data |->
        IF Len(ids) > 0 /\ ids[1] = v
        THEN [g.data[v] EXCEPT !.state = "aware"] ELSE g.data[v]]]

\* for v in infected_agents_id: G.nodes[v]['state'] = 'aware'
MarkAware(g, ids) ==
    [g EXCEPT !.data = [v \in DOMAIN g.data |->
        IF \E j \in 1..Len(ids) : ids[j] = v
        THEN [g.data[v] EXCEPT !.state = "aware"] ELSE g.data[v]]]

\* random.sample(range(len(G)), k): the lists of k distinct ids
Samples(len, k) ==
    {q \in [1..k -> 0..(len - 1)] : \A a, b \in 1..k : a # b => q[a] # q[b]}

\* random.sample raises ValueError for a sample larger than the population
SampleTooLarge(len, k) == k > len \/ k < 0

\* mutant of IterationsLeft: the search stops after its first iteration
IterationsLeft_early(i, number_of_iter) == i < number_of_iter /\ i < 1

\* for i in range(number_of_iter): a pass of the loop is left
IterationsLeft(i, number_of_iter) == i < number_of_iter

\* best_solution = [0, [0]]
BestSolution0 == << <<0, 1>>, <<0>> >>

\* if candidate_solution > best_solution[0]: keep the candidate
KeepBest(best, candidate, ids) ==
    IF RatLess(best[1], candidate) THEN <<candidate, ids>> ELSE best

\* one pass of the search loop up to the call of simulation_sequence
optimize_rs_iter ==
    /\ pc = "opt_loop"
    /\ IterationsLeft(i_opt, cfg.number_of_iter)
    /\ IF SampleTooLarge(Len(G.nodes), cfg.number_of_nodes)
       THEN /\ G' = ResetStates(G)
            /\ pc' = "error"
            /\ error' = "ValueError"
            /\ UNCHANGED infected_agents_id
       ELSE /\ \E ids \in Samples(Len(G.nodes), cfg.number_of_nodes) :
                 /\ infected_agents_id' = ids
                 /\ G' = MarkAware(ResetStates(G), ids)
            /\ pc' = "seq_loop"
            /\ error' = error
    /\ UNCHANGED <<G_zero, copy_id, target, cfg, stepVars, simVars, i_seq,
                   avg_inc, avg_aware_inc, trial_start, trial_ids, i_opt,
                   candidate_solution, best_solution, evaluated, G_call, thrVars,
                   nssVars, resolution>>

\* simulation_sequence returned (its frame and that of simulation are gone):
\* compare the candidate with the best
optimize_rs_compare ==
    /\ pc = "opt_cmp"
    /\ candidate_solution' = avg_aware_inc
    /\ best_solution' = KeepBest(best_solution, avg_aware_inc, infected_agents_id)
    /\ evaluated' = evaluated \cup {<<infected_agents_id, avg_aware_inc>>}
    /\ i_opt' = i_opt + 1
    /\ pc' = "opt_loop"
    /\ G_zero' = <<>>
    /\ target' = "G"
    /\ graph_list' = <<>>
    /\ avg_aware_inc_per_step' = <<>>
    /\ i_sim' = 0
    /\ i_seq' = 0
    /\ avg_inc' = <<>>
    /\ avg_aware_inc' = <<>>
    /\ trial_start' = <<>>
    /\ trial_ids' = <<>>
    /\ UNCHANGED <<G, copy_id, cfg, error, stepVars, infected_agents_id, G_call, thrVars,
                   nssVars, resolution>>

\* return best_solution
optimize_rs_return ==
    /\ pc = "opt_loop"
    /\ ~IterationsLeft(i_opt, cfg.number_of_iter)
    /\ pc' = "done"
    /\ UNCHANGED <<G, G_zero, copy_id, target, cfg, error, stepVars, simVars,
                   seqVars, optVars, G_call, thrVars,
                   nssVars, resolution>>

\* ------------------------------------------------- nodes_score_simulation
\* mutant of SingleSeed: the states are not reset before node i is marked
SingleSeed_noreset(g, i) == MarkAware(g, <<i>>)

\* nx.set_node_attributes(G, 'unaware', 'state') ; G.nodes[i]['state'] = 'aware'
SingleSeed(g, i) == MarkAware(ResetStates(g), <<i>>)

\* for i in population: one pass of the loop up to the call of
\* simulation_sequence; i runs over range(len(G))
nodes_score_simulation_iter ==
    /\ pc = "nss_loop"
    /\ i_nss < Len(G.nodes)
    /\ IF i_nss \in NodesOf(G)
       THEN /\ G' = SingleSeed(G, i_nss)
            /\ pc' = "seq_loop"
            /\ error' = error
       ELSE /\ G' = ResetStates(G)
            /\ pc' = "error"
            /\ error' = "KeyError"
    /\ UNCHANGED <<G_zero, copy_id, target, cfg, stepVars, simVars, i_seq,
                   avg_inc, avg_aware_inc, trial_start, trial_ids, optVars,
                   G_call, thrVars, nssVars, resolution>>

\* simulation_sequence returned (its frame and that of simulation are gone):
\* list_solution.append(new_solution)
nodes_score_simulation_append ==
    /\ pc = "nss_append"
    /\ list_solution' = Append(list_solution, avg_aware_inc)
    /\ i_nss' = i_nss + 1
    /\ pc' = "nss_loop"
    /\ G_zero' = <<>>
    /\ target' = "G"
    /\ graph_list' = <<>>
    /\ avg_aware_inc_per_step' = <<>>
    /\ i_sim' = 0
    /\ i_seq' = 0
    /\ avg_inc' = <<>>
    /\ avg_aware_inc' = <<>>
    /\ trial_start' = <<>>
    /\ trial_ids' = <<>>
    /\ UNCHANGED <<G, copy_id, cfg, error, stepVars, optVars, G_call, thrVars, resolution>>

\* return list_solution
nodes_score_simulation_return ==
    /\ pc = "nss_loop"
    /\ i_nss >= Len(G.nodes)
    /\ pc' = "done"
    /\ UNCHANGED <<G, G_zero, copy_id, target, cfg, error, stepVars, simVars,
                   seqVars, optVars, G_call, thrVars, nssVars, resolution>>

\* ------------------------------------------------------------- graph_init
RECURSIVE SeqMin(_)
SeqMin(xs) ==
    IF Len(xs) = 1 THEN xs[1]
    ELSE LET m == SeqMin(Tail(xs)) IN IF xs[1] < m THEN xs[1] ELSE m

RECURSIVE SeqMax(_)
SeqMax(xs) ==
    IF Len(xs) = 1 THEN xs[1]
    ELSE LET m == SeqMax(Tail(xs)) IN IF xs[1] > m THEN xs[1] ELSE m

\* the quotient r / den continued by `digits` decimal digits after q:
\* <<quotient, remainder>>
RECURSIVE DivDigits(_, _, _, _)
DivDigits(r, den, q, digits) ==
    IF digits = 0 THEN <<q, r>>
    ELSE DivDigits((r * 10) % den, den, q * 10 + ((r * 10) \div den), digits - 1)

\* MinMaxScaler on one column, then np.round(., 6): (x - min) / (max - min)
\* in millionths, rounded half to even; a column of equal values scales to 0
ScaleRound6(x, lo, hi) ==
    IF hi = lo THEN 0
    ELSE LET qr == DivDigits((x - lo) % (hi - lo), hi - lo,
                             (x - lo) \div (hi - lo), Decimals)
         IN  IF \/ 2 * qr[2] > hi - lo
                \/ (2 * qr[2] = hi - lo /\ qr[1] % 2 = 1)
             THEN qr[1] + 1 ELSE qr[1]

\* scaler.fit ; scaler.transform ; np.round(., 6)
MinMaxScaled(raw) ==
    [i \in 1..Len(raw) |-> ScaleRound6(raw[i], SeqMin(raw), SeqMax(raw))]

\* mutant of EliminateZeros: zeros are kept
EliminateZeros_kept(xs) == xs

\* if i == 0: scaled[x, y] = 0.000001
EliminateZeros(xs) == [i \in 1..Len(xs) |-> IF xs[i] = 0 THEN Epsilon ELSE xs[i]]

\* the ring lattice nx.watts_strogatz_graph starts from: every node joined
\* to its k // 2 next nodes
RingLattice(n, k) ==
    [i \in 1..(n * (k \div 2)) |->
        <<(i - 1) % n, (((i - 1) % n) + 1 + ((i - 1) \div n)) % n>>]

\* nx.complete_graph(n)
RECURSIVE CompleteEdges(_)
CompleteEdges(n) ==
    IF n <= 1 THEN <<>>
    ELSE CompleteEdges(n - 1) \o [i \in 1..(n - 1) |-> <<i - 1, n - 1>>]

\* the edge lists nx.watts_strogatz_graph(n, k, p) can return for k <= n:
\* the complete graph for k = n; otherwise the lattice, or the lattice with
\* the first edge of node 0 rewired to a node that is neither 0 nor a
\* neighbour of 0
WattsStrogatz(n, k) ==
    LET lat == RingLattice(n, k)
        nbrs == {lat[i][2] : i \in {j \in 1..Len(lat) : lat[j][1] = 0}}
                   \cup {lat[i][1] : i \in {j \in 1..Len(lat) : lat[j][2] = 0}}
    IN  IF k = n THEN {CompleteEdges(n)}
        ELSE IF Len(lat) = 0 THEN {lat}
        ELSE {lat} \cup {[lat EXCEPT ![1] = <<0, w>>] : w \in (1..(n - 1)) \ nbrs}

\* the raw samples of np.random.exponential and np.random.normal, rounded to
\* 6 decimals, in millionths
ExponentialSamples == {0, 1, 100000000}
NormalShapes(len) ==
    {[i \in 1..len |-> 250000],
     [i \in 1..len |-> 750000 * i - 1750000],
     [i \in 1..len |-> IF i = len THEN 99000000
                       ELSE IF i = 1 THEN -1000000 ELSE -999999]}
ExponentialShapes(len) ==
    {[i \in 1..len |-> 1000000],
     [i \in 1..len |-> 300000 * (len - i)],
     [i \in 1..len |-> IF i = 1 THEN 100000000 ELSE i - 2]}

\* initiation_perc in hundredths, and int(N * initiation_perc)
InitiationCount(N, perc) == (N * perc) \div 100

\* for i, (u, v) in enumerate(G.edges()): G[u][v]['weight'] = scaled_weights[i, 0]
EdgeWeights(edges, w) ==
    [p \in EdgePairs(edges) |->
        w[CHOOSE i \in 1..Len(edges) :
              {edges[i][1], edges[i][2]} = {p[1], p[2]}]]

\* the graph graph_init returns: node v takes element v of each scaled
\* trait array
GraphInitResult(n, edges, w, rec, ext, eng, ids) ==
    [MkGraph([i \in 1..n |-> i - 1], edges, 0,
             {ids[j] : j \in 1..Len(ids)},
             [v \in 0..(n - 1) |-> rec[v + 1]],
             [v \in 0..(n - 1) |-> ext[v + 1]],
             [v \in 0..(n - 1) |-> eng[v + 1]])
        EXCEPT !.weight = EdgeWeights(edges, w)]

\* the graph before it is built
NoGraph == MkGraph(<<>>, <<>>, 0, {}, <<>>, <<>>, <<>>)

\* graph_init(n, k, rewire_prob, initiation_perc).  nx.watts_strogatz_graph
\* rejects k > n, and in older releases of the library k = n as well; the
\* scalers reject an empty sample array; node v reads element v of arrays
\* that have one element per edge; random.sample rejects a sample larger
\* than the population
graph_init ==
    /\ pc = "graph_init"
    /\ \/ /\ cfg.k >= cfg.n
          /\ pc' = "error"
          /\ error' = "NetworkXError"
          /\ G' = G
       \/ /\ cfg.k <= cfg.n
          /\ \E edges \in WattsStrogatz(cfg.n, cfg.k) :
               IF Len(edges) = 0
               THEN pc' = "error" /\ error' = "ValueError" /\ G' = G
               ELSE IF Len(edges) < cfg.n
               THEN pc' = "error" /\ error' = "IndexError" /\ G' = G
               ELSE IF SampleTooLarge(cfg.n,
                          InitiationCount(cfg.n, cfg.initiation_perc))
               THEN pc' = "error" /\ error' = "ValueError" /\ G' = G
               ELSE \E weights \in [1..Len(edges) -> ExponentialSamples],
                       receptiveness \in NormalShapes(Len(edges)),
                       extraversion \in NormalShapes(Len(edges)),
                       engagement \in ExponentialShapes(Len(edges)),
                       ids \in Samples(cfg.n,
                                InitiationCount(cfg.n, cfg.initiation_perc)) :
                      /\ G' = GraphInitResult(cfg.n, edges,
                                 EliminateZeros(MinMaxScaled(weights)),
                                 EliminateZeros(MinMaxScaled(receptiveness)),
                                 EliminateZeros(MinMaxScaled(extraversion)),
                                 EliminateZeros(MinMaxScaled(engagement)),
                                 ids)
                      /\ pc' = "done"
                      /\ error' = error
    /\ UNCHANGED <<G_zero, copy_id, target, cfg, stepVars, simVars, i_seq,
                   avg_inc, avg_aware_inc, trial_start, trial_ids, optVars,
                   G_call, thrVars, nssVars, resolution>>

\* --------------------------------------------------------- specifications
\* where a call of the entry point starts
EntryPc(entry) ==
    IF entry = "simulation_step" THEN "step_node"
    ELSE IF entry = "simulation" THEN "sim_call"
    ELSE IF entry = "simulation_sequence" THEN "seq_loop"
    ELSE IF entry = "optimize_rs" THEN "opt_loop"
    ELSE IF entry = "nodes_score_simulation" THEN "nss_loop"
    ELSE "graph_init"

Config(entry, kernel, custom_kernel, oblivion, enf, n, sequence_len, k, iter) ==
    [entry |-> entry, kernel |-> kernel, custom_kernel |-> custom_kernel,
     WERE_multiplier |-> WERE_multiplier_default, oblivion |-> oblivion,
     engagement_enforcement |-> enf, n |-> n, sequence_len |-> sequence_len,
     number_of_nodes |-> k, number_of_iter |-> iter]

\* the frames of the four entry points when one of them is called on graph g
\* with arguments c
InitFrames(g, c) ==
    /\ G = g
    /\ G_call = g
    /\ G_zero = <<>>
    /\ copy_id = 0
    /\ target = "G"
    /\ cfg = c
    /\ pc = EntryPc(c.entry)
    /\ error = ""
    /\ nidx = 1
    /\ nbidx = 0
    /\ i_sim = 0
    /\ graph_list = <<>>
    /\ avg_aware_inc_per_step = <<>>
    /\ i_seq = 0
    /\ avg_inc = <<>>
    /\ avg_aware_inc = <<>>
    /\ i_opt = 0
    /\ infected_agents_id = <<>>
    /\ candidate_solution = <<0, 1>>
    /\ best_solution = BestSolution0
    /\ trial_start = <<>>
    /\ trial_ids = <<>>
    /\ evaluated = {}

\* the state when the entry point is called on graph g with arguments c
InitCall(g, c) ==
    /\ InitFrames(g, c)
    /\ thr = <<>>
    /\ global_neighbour = <<>>
    /\ sched = "serial"
    /\ i_nss = 0
    /\ list_solution = <<>>
    /\ resolution = 1

\* kernel and custom_kernel arguments
KernelChoices ==
    {<<"weights", "None">>, <<"WERE", "None">>, <<"custom", "fn">>,
     <<"custom", "None">>}

\* direct calls of simulation_step and simulation
Init ==
    \E entry \in {"simulation_step", "simulation"}, edges \in TopologySet,
       w \in WeightSet, A \in SUBSET NodeSet, kc \in KernelChoices,
       oblivion \in BOOLEAN, enf \in EnforcementSet, n \in 1..MaxSteps :
        /\ entry = "simulation_step" => n = 1
        /\ InitCall(MkGraph(Nodes, edges, w, A, Receptiveness0, Extraversion0,
                            Engagement0),
                    Config(entry, kc[1], kc[2], oblivion, enf, n, 1, 1, 1))

Next ==
    \/ simulation_step_node
    \/ simulation_step_neighbour
    \/ simulation_step_return
    \/ simulation_call
    \/ simulation_snapshot
    \/ simulation_return

Spec == Init /\ [][Next]_vars

\* calls of simulation_sequence on the path graph
InitSequence ==
    \E A \in {{1}, {0, 1, 2}}, kernel \in {"weights", "WERE"},
       oblivion \in BOOLEAN, n \in 1..MaxSteps, sequence_len \in 1..MaxSeqLen :
        InitCall(MkGraph(Nodes, << <<0, 1>>, <<1, 2>> >>, 500000, A,
                         Receptiveness0, Extraversion0, Engagement0),
                 Config("simulation_sequence", kernel, "None", oblivion, 150, n,
                        sequence_len, 1, 1))

NextSequence ==
    \/ simulation_step_node
    \/ simulation_step_neighbour
    \/ simulation_call
    \/ simulation_snapshot
    \/ simulation_return
    \/ simulation_sequence_trial
    \/ simulation_sequence_append
    \/ simulation_sequence_return

SpecSequence == InitSequence /\ [][NextSequence]_vars

\* the seed-set sizes number_of_nodes passed to optimize_rs: within the
\* population of 3 nodes, and one above it
SeedSizes == {1, 2, 4}

\* calls of optimize_rs
InitOptimize ==
    \E edges \in TopologySet, A \in {{}, {0, 2}},
       oblivion \in BOOLEAN,
       sequence_len \in 1..MaxSeqLen, k \in SeedSizes, iter \in 1..MaxIter :
        /\ sequence_len = 1 \/ iter = 1
        /\ InitCall(MkGraph(Nodes, edges, Unit, A, Receptiveness0,
                         Extraversion0, Engagement0),
                    Config("optimize_rs", "weights", "None", oblivion, 100, 1,
                           sequence_len, k, iter))

NextOptimize ==
    \/ simulation_step_node
    \/ simulation_step_neighbour
    \/ simulation_call
    \/ simulation_snapshot
    \/ simulation_return
    \/ simulation_sequence_trial
    \/ simulation_sequence_append
    \/ simulation_sequence_return
    \/ optimize_rs_iter
    \/ optimize_rs_compare
    \/ optimize_rs_return

SpecOptimize == InitOptimize /\ [][NextOptimize]_vars

\* calls of nodes_score_simulation
InitNodesScore ==
    \E edges \in TopologySet, A \in {{}, {0, 2}}, oblivion \in BOOLEAN,
       sequence_len \in 1..MaxSeqLen :
        InitCall(MkGraph(Nodes, edges, Unit, A, Receptiveness0, Extraversion0,
                         Engagement0),
                 Config("nodes_score_simulation", "weights", "None", oblivion,
                        100, 1, sequence_len, 1, 1))

NextNodesScore ==
    \/ simulation_step_node
    \/ simulation_step_neighbour
    \/ simulation_call
    \/ simulation_snapshot
    \/ simulation_return
    \/ simulation_sequence_trial
    \/ simulation_sequence_append
    \/ simulation_sequence_return
    \/ nodes_score_simulation_iter
    \/ nodes_score_simulation_append
    \/ nodes_score_simulation_return

SpecNodesScore == InitNodesScore /\ [][NextNodesScore]_vars

\* calls of graph_init: n nodes, k lattice neighbours, initiation_perc in
\* hundredths
GraphInitSizes == {<<2, 1>>, <<2, 2>>, <<3, 2>>, <<3, 3>>, <<4, 2>>, <<3, 4>>}
InitiationPercSet == {0, 34, 150}

InitGraphInit ==
    \E nk \in GraphInitSizes, perc \in InitiationPercSet :
        InitCall(NoGraph,
                 [entry |-> "graph_init", n |-> nk[1], k |-> nk[2],
                  initiation_perc |-> perc])

NextGraphInit == graph_init

SpecGraphInit == InitGraphInit /\ [][NextGraphInit]_vars

\* calls of optimize_rs that start at a fixed point of the dynamics: with
\* three seeds every node is Aware from the first snapshot on.  The program
\* is sequential, so a call that can take a step takes it: weak fairness
\* on every action, for the two steps of the sweep and the return of
\* simulation_sequence through their effect on the control (StepControl,
\* SequenceControl).  Searches of several iterations are run
\* without oblivion and with one trial per candidate.
TerminationSeedSizes == {1, 3, 4}

\* the control of the sweep of simulation_step: a pass of the outer or of
\* the inner loop moves to the next neighbour, to the next node, or raises
StepControl ==
    /\ pc \in {"step_node", "step_nb"}
    /\ pc = "step_node" => nidx <= Len(Cur.nodes)
    /\ pc' \in {"step_node", "step_nb", "error"}
    /\ nidx' \in {nidx, nidx + 1}
    /\ nbidx' \in {0, nbidx, nbidx + 1}
    /\ <<pc', nidx', nbidx'>> # <<pc, nidx, nbidx>>

\* the control of the return of simulation_sequence inside optimize_rs:
\* after the last trial the mean is returned, or the division raises
SequenceControl ==
    /\ pc = "seq_loop"
    /\ i_seq >= cfg.sequence_len
    /\ pc' \in {"opt_cmp", "error"}

InitTermination ==
    \E oblivion \in BOOLEAN, n \in 1..MaxSteps, k \in TerminationSeedSizes,
       iter \in 1..MaxIter, w \in WeightSet, sequence_len \in 1..MaxSeqLen,
       enf \in EnforcementSet :
        /\ (oblivion \/ sequence_len > 1) => iter = 1
        /\ oblivion => sequence_len = 1
        /\ InitCall(MkGraph(Nodes, << <<0, 1>>, <<1, 2>> >>, w, {},
                            Receptiveness0, Extraversion0, Engagement0),
                    Config("optimize_rs", "weights", "None", oblivion, enf, n,
                           sequence_len, k, iter))

SpecTermination ==
    /\ InitTermination
    /\ [][NextOptimize]_vars
    /\ WF_<<pc, nidx, nbidx>>(StepControl)
    /\ WF_vars(simulation_call)
    /\ WF_vars(simulation_snapshot)
    /\ WF_vars(simulation_return)
    /\ WF_vars(simulation_sequence_trial)
    /\ WF_vars(simulation_sequence_append)
    /\ WF_pc(SequenceControl)
    /\ WF_vars(optimize_rs_iter)
    /\ WF_vars(optimize_rs_compare)
    /\ WF_vars(optimize_rs_return)

\* calls of simulation_step and simulation on a graph whose engagement
\* values carry seven decimals: they are counted in ten-millionths, node 0
\* has engagement 0.1234567, node 1 has 0.5 and node 2 has 1.0
FineResolution == 10

FineEngagement0 == (0 :> 1234567) @@ (1 :> 5000000) @@ (2 :> 10000000)

InitPrecision ==
    \E entry \in {"simulation_step", "simulation"}, edges \in TopologySet,
       A \in SUBSET NodeSet, kernel \in {"weights", "WERE"},
       oblivion \in BOOLEAN, enf \in EnforcementSet, n \in 1..MaxSteps :
        /\ entry = "simulation_step" => n = 1
        /\ InitFrames(MkGraph(Nodes, edges, Unit, A, Receptiveness0,
                              Extraversion0, FineEngagement0),
                      Config(entry, kernel, "None", oblivion, enf, n, 1, 1, 1))
        /\ thr = <<>>
        /\ global_neighbour = <<>>
        /\ sched = "serial"
        /\ i_nss = 0
        /\ list_solution = <<>>
        /\ resolution = FineResolution

SpecPrecision == InitPrecision /\ [][Next]_vars

\* ---------------------------------------------------------- the ring runs
\* the 5-node ring: nodes 0..4 and the edges of a cycle
RingNodes == <<0, 1, 2, 3, 4>>
RingEdges == << <<0, 1>>, <<1, 2>>, <<2, 3>>, <<3, 4>>, <<4, 0>> >>
RingTrait == [v \in 0..4 |-> 500000]

\* simulation(G, n = h) on the ring with weight w on every edge, kernel
\* 'weights', oblivion disabled, engagement_enforcement enf and one seed node
InitRing(w, h, enf) ==
    \E seed \in 0..4 :
        InitCall(MkGraph(RingNodes, RingEdges, w, {seed}, RingTrait, RingTrait,
                         RingTrait),
                 Config("simulation", "weights", "None", FALSE, enf, h, 1, 1, 1))

NextSimulation ==
    \/ simulation_step_node
    \/ simulation_step_neighbour
    \/ simulation_call
    \/ simulation_snapshot
    \/ simulation_return

\* every weight 1.0, horizon 4
InitScenarioA == InitRing(Unit, 4, 101)
SpecScenarioA == InitScenarioA /\ [][NextSimulation]_vars

\* every weight 0.0 held at the clamped value 0.000001, horizon 10
InitScenarioB == InitRing(Epsilon, 10, 100)
SpecScenarioB == InitScenarioB /\ [][NextSimulation]_vars

\* ------------------------------------------------- horizons around zero
\* the horizons n passed to simulation: below 1, and 1 for comparison
HorizonSet == {-2, -1, 0, 1}

\* direct calls of simulation on the path graph with those horizons
InitHorizon ==
    \E w \in WeightSet, A \in SUBSET NodeSet, oblivion \in BOOLEAN,
       n \in HorizonSet :
        InitCall(MkGraph(Nodes, << <<0, 1>>, <<1, 2>> >>, w, A, Receptiveness0,
                         Extraversion0, Engagement0),
                 Config("simulation", "weights", "None", oblivion, 150, n, 1,
                        1, 1))

SpecHorizon == InitHorizon /\ [][NextSimulation]_vars

\* ------------------------------- simulation_step executions in one process
\* the length of the injected draw sequence, which is read cyclically
DrawPeriod == 3

\* the k-th uniform draw of an execution whose injected sequence is ds
DrawAt(ds, k) == ds[((k - 1) % Len(ds)) + 1]

\* the injected draw sequences
DrawSequences == [1..DrawPeriod -> {0, 500000, 999999}]

\* one execution of simulation_step at its call: its graph object (g0 keeps
\* the value at the call), its draw sequence and the number of draws used
ThreadStart(g, ds) ==
    [g0 |-> g, g |-> g, draws |-> ds, used |-> 0, nidx |-> 1, nbidx |-> 0,
     pc |-> "node", error |-> ""]

\* the execution has returned or raised
Finished(th) == th.pc \in {"done", "error"}

\* for n in G.nodes(): the oblivion block with its two draws, and the test
\* that n is still aware
ThreadNode(th, c) ==
    IF th.nidx > Len(th.g.nodes) THEN [th EXCEPT !.pc = "done"]
    ELSE LET n == th.g.nodes[th.nidx]
             enters == OblivionEnabled(c.oblivion) /\ th.g.data[n].state = "aware"
             g1 == OblivionPhase(th.g, n, DrawAt(th.draws, th.used + 1),
                                 DrawAt(th.draws, th.used + 2), c.oblivion,
                                 c.engagement_enforcement)
             u1 == IF enters THEN th.used + 2 ELSE th.used
         IN  IF g1.data[n].state = "aware"
             THEN [th EXCEPT !.g = g1, !.used = u1, !.pc = "next", !.nbidx = 0]
             ELSE [th EXCEPT !.g = g1, !.used = u1, !.nidx = th.nidx + 1]

\* G.neighbors(n) has no further element
NeighboursExhausted(th) == th.nbidx >= Len(th.g.adj[th.g.nodes[th.nidx]])

\* for neighbour in G.neighbors(n): the step of the iterator
ThreadNext(th) ==
    IF NeighboursExhausted(th)
    THEN [th EXCEPT !.pc = "node", !.nidx = th.nidx + 1, !.nbidx = 0]
    ELSE [th EXCEPT !.pc = "visit", !.nbidx = th.nbidx + 1]

\* mutant of ForTarget: the first element of a neighbour list is not stored
\* when the global is already bound
ForTarget_keepbound(th, t, old) ==
    IF NeighboursExhausted(th) \/ (th.nbidx = 0 /\ old # <<>>) THEN old
    ELSE <<th.g.adj[th.g.nodes[th.nidx]][th.nbidx + 1], t>>

\* global neighbour: the for statement stores each element in the module
\* global; the second component records the execution that stored it
ForTarget(th, t, old) ==
    IF NeighboursExhausted(th) THEN old
    ELSE <<th.g.adj[th.g.nodes[th.nidx]][th.nbidx + 1], t>>

\* the body of the neighbour loop, which reads the module global nb
ThreadVisit(th, nb, c) ==
    LET n == th.g.nodes[th.nidx]
    IN  IF nb = <<>>
        THEN [th EXCEPT !.pc = "error", !.error = "NameError"]
        ELSE IF nb[1] \notin NodesOf(th.g)
        THEN [th EXCEPT !.pc = "error", !.error = "KeyError"]
        ELSE IF th.g.data[nb[1]].state = "unaware"
        THEN IF CustomKernelMissing(th.g, nb[1], c)
             THEN [th EXCEPT !.pc = "error", !.error = "TypeError"]
             ELSE IF /\ c.kernel \in {"weights", "WERE"}
                     /\ <<n, nb[1]>> \notin DOMAIN th.g.weight
             THEN [th EXCEPT !.pc = "error", !.error = "KeyError"]
             ELSE [th EXCEPT !.g = NeighbourVisit(th.g, n, nb[1],
                                                  DrawAt(th.draws, th.used + 1), c),
                             !.used = th.used + 1, !.pc = "next"]
        ELSE [th EXCEPT !.g = NeighbourVisit(th.g, n, nb[1], 0, c),
                        !.pc = "next"]

\* execution t may take a step: any execution when they run in parallel,
\* the next call only after the previous one ended when they run serially
Scheduled(t) ==
    sched = "parallel" \/ \A u \in 1..(t - 1) : Finished(thr[u])

frameVars == <<G, G_zero, copy_id, target, cfg, pc, error, stepVars, simVars,
               i_seq, avg_inc, avg_aware_inc, trial_start, trial_ids, optVars,
               G_call>>

thread_node ==
    /\ \E t \in DOMAIN thr :
         /\ Scheduled(t)
         /\ thr[t].pc = "node"
         /\ thr' = [thr EXCEPT ![t] = ThreadNode(thr[t], cfg)]
    /\ UNCHANGED <<global_neighbour, sched, frameVars, nssVars, resolution>>

thread_next ==
    /\ \E t \in DOMAIN thr :
         /\ Scheduled(t)
         /\ thr[t].pc = "next"
         /\ thr' = [thr EXCEPT ![t] = ThreadNext(thr[t])]
         /\ global_neighbour' = ForTarget(thr[t], t, global_neighbour)
    /\ UNCHANGED <<sched, frameVars, nssVars, resolution>>

thread_visit ==
    /\ \E t \in DOMAIN thr :
         /\ Scheduled(t)
         /\ thr[t].pc = "visit"
         /\ thr' = [thr EXCEPT ![t] = ThreadVisit(thr[t], global_neighbour, cfg)]
    /\ UNCHANGED <<global_neighbour, sched, frameVars, nssVars, resolution>>

NextThreads == thread_node \/ thread_next \/ thread_visit

\* executions of simulation_step on the graphs gs with the draw sequences
\* dss, all with the arguments c
InitThreads(gs, dss, c, s) ==
    /\ InitFrames(gs[1], c)
    /\ thr = [t \in 1..Len(gs) |-> ThreadStart(gs[t], dss[t])]
    /\ global_neighbour = <<>>
    /\ sched = s
    /\ i_nss = 0
    /\ list_solution = <<>>
    /\ resolution = 1

\* the path 0 - 1 - 2 with its edges added in either order
PathEdgeOrders == {<< <<0, 1>>, <<1, 2>> >>, << <<1, 2>>, <<0, 1>> >>}

\* two calls of simulation_step, one after the other, with the same
\* arguments and the same injected draws, on graphs with the same nodes,
\* states, traits and weights
InitPair ==
    \E e1, e2 \in PathEdgeOrders, A \in SUBSET NodeSet,
       kc \in {<<"weights", "None">>, <<"WERE", "None">>, <<"custom", "None">>},
       oblivion \in BOOLEAN, ds \in DrawSequences :
        InitThreads(<<MkGraph(Nodes, e1, 500000, A, Receptiveness0,
                              Extraversion0, Engagement0),
                      MkGraph(Nodes, e2, 500000, A, Receptiveness0,
                              Extraversion0, Engagement0)>>,
                    <<ds, ds>>,
                    Config("simulation_step", kc[1], kc[2], oblivion, 150, 1,
                           1, 1, 1),
                    "serial")

SpecPair == InitPair /\ [][NextThreads]_vars

\* two executions of simulation_step running concurrently in one process,
\* each on its own copy of the path graph and with its own draws
InitParallel ==
    \E A \in {{1}, {0, 1, 2}}, oblivion \in BOOLEAN, ds1 \in DrawSequences,
       ds2 \in {<<0, 500000, 999999>>} :
        LET g == MkGraph(Nodes, << <<0, 1>>, <<1, 2>> >>, 500000, A,
                         Receptiveness0, Extraversion0, Engagement0)
        IN  InitThreads(<<g, g>>, <<ds1, [k \in 1..DrawPeriod |-> DrawAt(ds2, k)]>>,
                        Config("simulation_step", "weights", "None", oblivion,
                               150, 1, 1, 1, 1),
                        "parallel")

SpecParallel == InitParallel /\ [][NextThreads]_vars

\* ----------------------------------------------------------------- claims
\* the node n of the running simulation_step, and the neighbour it visits
CurNode == Cur.nodes[nidx]
CurNeighbour == Cur.adj[CurNode][nbidx]

\* C1: copy isolation.  When simulation_sequence has returned, the caller's
\* graph (every node's state, receptiveness, extraversion and engagement,
\* every edge weight) equals its value before the call.
C1_CopyIsolation == pc = "done" => G = G_call

\* a sequence has returned whose last trial changed its own copy
C1_Witness ==
    /\ pc = "done"
    /\ cfg.sequence_len >= 1
    /\ G_zero # <<>>
    /\ G_zero[1].data # G_call.data

\* C2: trial independence.  Every trial of simulation_sequence starts from
\* a graph equal to the input graph at call time, and no two trials use the
\* same copy object.
C2_TrialIndependence ==
    /\ \A i \in 1..Len(trial_start) : trial_start[i] = G_call
    /\ \A i, j \in 1..Len(trial_ids) : i # j => trial_ids[i] # trial_ids[j]

\* a second trial has started after a first trial that changed awareness
C2_Witness ==
    /\ Len(trial_start) >= 2
    /\ Len(avg_inc) >= 1
    /\ avg_inc[1] # <<0, 1>>
    /\ pc = "sim_call"

\* node v is Aware before the transition and Unaware after it
Forgets(v) ==
    /\ Cur.data[v].state = "aware"
    /\ Cur'.data[v].state = "unaware"

\* a second draw r2 below oblivion_factor * random_factor exists for node v
OblivionDrawExists(v) ==
    LET aware == AwareNeighbours(Cur, v)
        unaware == Len(Cur.adj[v]) - aware
    IN  \E random_factor, r2 \in DrawSet :
           BigLess(BigMul(Big(r2), Big(10000 * (aware + unaware) + 2)),
                   BigMul(Big(10000 * unaware + 1), Big(random_factor)))

\* C3: an Aware node turns Unaware in a transition of simulation_step only
\* when oblivion is enabled, the node is the one being processed, and an
\* oblivion draw below oblivion_prob exists; so with oblivion disabled every
\* Aware node stays Aware.

C3_AwareStaysAware ==
    [][\A v \in NodeSet :
         Forgets(v) =>
            /\ cfg.oblivion = TRUE
            /\ pc = "step_node"
            /\ nidx <= Len(Cur.nodes)
            /\ CurNode = v
            /\ OblivionDrawExists(v)]_vars

\* with oblivion disabled a call has returned after awareness spread, every
\* initially Aware node still Aware
C3_Witness ==
    /\ pc = "done"
    /\ cfg.oblivion = FALSE
    /\ AwareSet(G_call) # {}
    /\ AwareSet(G) # AwareSet(G_call)
    /\ AwareSet(G_call) \subseteq AwareSet(G)

\* C4: every node state stays in {aware, unaware}, and the engagement the
\* oblivion path writes when a node forgets lies in [0, 1].
C4_StatesAndOblivionEngagement ==
    /\ [](\A v \in NodeSet : Cur.data[v].state \in {"aware", "unaware"})
    /\ [][\A v \in NodeSet :
            Forgets(v) =>
               /\ Cur'.data[v].engagement >= 0
               /\ Cur'.data[v].engagement <= Unit]_vars

\* a node forgot and its reinforced engagement was capped at 1
C4_Witness ==
    /\ cfg.oblivion = TRUE
    /\ cfg.engagement_enforcement > 100
    /\ \E v \in NodeSet :
         /\ G_call.data[v].state = "aware"
         /\ G.data[v].state = "unaware"
         /\ G_call.data[v].engagement < Unit
         /\ G.data[v].engagement = Unit

\* C5: simulation with n >= 1 runs exactly n steps on one graph, returns
\* n + 1 snapshots (entry 0 before any step, entry i after step i) and the
\* average (aware in last snapshot - aware in snapshot 0) / n.
C5_SimulationResult ==
    (cfg.entry = "simulation" /\ pc \notin {"sim_call", "error"}) =>
        /\ Len(graph_list) = i_sim + 1
        /\ graph_list[1] = Snapshot(G_call)
        /\ (pc = "step_node" /\ nidx = 1 /\ nbidx = 0) =>
              graph_list[i_sim + 1] = Snapshot(G)
        /\ pc = "sim_count" => i_sim = cfg.n
        /\ pc = "done" =>
              /\ i_sim = cfg.n
              /\ Len(graph_list) = cfg.n + 1
              /\ graph_list[cfg.n + 1] = Snapshot(G)
              /\ avg_aware_inc_per_step[1] * cfg.n =
                    (AwareCount(graph_list[cfg.n + 1]) - AwareCount(graph_list[1]))
                       * avg_aware_inc_per_step[2]

\* a two-step run has returned with three different snapshots
C5_Witness ==
    /\ cfg.entry = "simulation"
    /\ pc = "done"
    /\ cfg.n = 2
    /\ graph_list[1] # graph_list[2]
    /\ graph_list[2] # graph_list[3]
    /\ avg_aware_inc_per_step # <<0, 1>>

\* C6: the average returned by simulation and the mean returned by
\* simulation_sequence lie in [-N/n, N/n], N the number of nodes.
C6_InBound(avg) ==
    /\ 0 - Len(G.nodes) * avg[2] <= avg[1] * cfg.n
    /\ avg[1] * cfg.n <= Len(G.nodes) * avg[2]

C6_AverageBound ==
    /\ avg_aware_inc_per_step # <<>> => C6_InBound(avg_aware_inc_per_step)
    /\ avg_aware_inc # <<>> => C6_InBound(avg_aware_inc)

\* a sequence of two-step runs has returned the lowest value the bound allows
\* for one run: every node forgot
C6_Witness ==
    /\ pc = "done"
    /\ cfg.n = 2
    /\ avg_aware_inc # <<>>
    /\ \E i \in 1..Len(avg_inc) :
          avg_inc[i][1] * cfg.n = (0 - Len(G.nodes)) * avg_inc[i][2]

\* C7: simulation_sequence makes exactly sequence_len runs of horizon n and
\* returns the sum of their averages divided by sequence_len; with
\* sequence_len = 1 it returns the average of the single run.
RECURSIVE C7_SumTo(_, _)
C7_SumTo(q, i) ==
    IF i = 0 THEN <<0, 1>>
    ELSE LET t == C7_SumTo(q, i - 1)
         IN  <<t[1] * q[i][2] + q[i][1] * t[2], t[2] * q[i][2]>>

C7_SequenceMean ==
    /\ pc = "seq_append" => Len(graph_list) = cfg.n + 1 /\ i_sim = cfg.n
    /\ pc = "done" =>
          /\ i_seq = cfg.sequence_len
          /\ Len(avg_inc) = cfg.sequence_len
          /\ Len(trial_ids) = cfg.sequence_len
          /\ LET t == C7_SumTo(avg_inc, Len(avg_inc))
             IN  avg_aware_inc[1] * t[2] * cfg.sequence_len
                    = t[1] * avg_aware_inc[2]
          /\ cfg.sequence_len = 1 => avg_aware_inc = avg_aware_inc_per_step

\* a sequence of two runs with different averages has returned
C7_Witness ==
    /\ pc = "done"
    /\ cfg.sequence_len = 2
    /\ avg_inc[1] # avg_inc[2]
    /\ avg_aware_inc # <<0, 1>>

\* C8: on the 5-node ring with every weight 1.0, kernel 'weights', oblivion
\* disabled, one seed and n = 4, all 5 nodes are Aware in snapshot 2 and in
\* every later snapshot.
C8_ScenarioA ==
    \A i \in 1..Len(graph_list) : i >= 3 => AwareCount(graph_list[i]) = 5

\* the run has returned and snapshot 1 did not yet hold all 5 nodes
C8_Witness ==
    /\ pc = "done"
    /\ Len(graph_list) = 5
    /\ AwareCount(graph_list[1]) = 1
    /\ AwareCount(graph_list[2]) = 3
    /\ AwareCount(graph_list[3]) = 5

\* C9 as stated: on the ring with every weight at the clamped value
\* 0.000001 and n = 10, the aware count of every snapshot is 1 for every
\* sequence of draws.
C9_Original ==
    \A i \in 1..Len(graph_list) : AwareCount(graph_list[i]) = 1

\* C9 amended: the aware count is 1 in snapshot 0 and never below 1, no node
\* turns Unaware, and a node turns Aware only in a propagation attempt whose
\* draw is below the clamped weight 0.000001; so with every draw at or above
\* 0.000001 all 11 snapshots have aware count 1.
C9_ScenarioB ==
    /\ [](\A i \in 1..Len(graph_list) :
            /\ AwareCount(graph_list[i]) >= 1
            /\ i = 1 => AwareCount(graph_list[i]) = 1)
    /\ [][AwareSet(Cur') # AwareSet(Cur) =>
            /\ pc = "step_nb"
            /\ AwareSet(Cur) \subseteq AwareSet(Cur')
            /\ \A d \in DrawSet :
                 Cur' = NeighbourVisit(Cur, CurNode, CurNeighbour, d, cfg)
                    => d < Epsilon]_vars

\* the run has returned with 11 snapshots, one Aware node in each
C9_Witness ==
    /\ pc = "done"
    /\ Len(graph_list) = 11
    /\ \A i \in 1..11 : AwareCount(graph_list[i]) = 1

\* C10 as stated: optimize_rs returns the best candidate: the returned score
\* is the maximum of the scores of all candidates evaluated and the returned
\* seed list is the seed list of an iteration that achieved it; with
\* number_of_iter = 1 and number_of_nodes = 1 the returned seed list has
\* size 1 and the score is the single evaluation, also when it is 0 or
\* negative.
C10_ReturnsBest ==
    (pc = "done" /\ cfg.number_of_iter >= 1) =>
        /\ <<best_solution[2], best_solution[1]>> \in evaluated
        /\ \A c \in evaluated : RatLeq(c[2], best_solution[1])
        /\ (cfg.number_of_iter = 1 /\ cfg.number_of_nodes = 1) =>
              /\ Len(best_solution[2]) = 1
              /\ best_solution[1] = candidate_solution

\* C11: in every iteration of optimize_rs, when simulation_sequence is
\* invoked the graph has exactly number_of_nodes Aware nodes, they are
\* pairwise distinct node ids of G, and every other node is Unaware,
\* whichever nodes were Aware at the call or in earlier iterations.
C11_SeedSetAtInvocation ==
    (cfg.entry = "optimize_rs" /\ pc = "seq_loop" /\ i_seq = 0) =>
        /\ Len(infected_agents_id) = cfg.number_of_nodes
        /\ \A a, b \in 1..Len(infected_agents_id) :
              a # b => infected_agents_id[a] # infected_agents_id[b]
        /\ \A a \in 1..Len(infected_agents_id) :
              infected_agents_id[a] \in NodesOf(G)
        /\ Cardinality(AwareSet(G)) = cfg.number_of_nodes
        /\ \A v \in NodesOf(G) :
              G.data[v].state =
                 IF \E a \in 1..Len(infected_agents_id) : infected_agents_id[a] = v
                 THEN "aware" ELSE "unaware"

\* the second iteration invokes simulation_sequence with one seed that was
\* not Aware at the call, on a graph that had two other nodes Aware
C11_Witness ==
    /\ cfg.entry = "optimize_rs"
    /\ pc = "seq_loop"
    /\ i_seq = 0
    /\ i_opt = 1
    /\ AwareSet(G_call) = {0, 2}
    /\ AwareSet(G) = {1}


\* the two calls were given graphs with the same nodes in the same
\* iteration order, the same states and traits, and the same weights
C12_SameInputs ==
    /\ thr[1].g0.nodes = thr[2].g0.nodes
    /\ thr[1].g0.data = thr[2].g0.data
    /\ thr[1].g0.weight = thr[2].g0.weight
    /\ thr[1].draws = thr[2].draws

\* the two calls ended alike: same state and engagement of every node, same
\* number of draws consumed, same exception if any
C12_SameOutputs ==
    /\ thr[1].g.data = thr[2].g.data
    /\ thr[1].used = thr[2].used
    /\ thr[1].error = thr[2].error

C13_Original ==
    (cfg.entry = "simulation" /\ pc = "done") =>
        \A v \in NodesOf(G) :
            /\ G.data[v].state = G_call.data[v].state
            /\ G.data[v].engagement = G_call.data[v].engagement

\* C13 amended: a direct call of simulation works on the caller's graph
\* object itself and makes no copy of the graph: every neighbour visit of a
\* step writes its result to the caller's graph, and after the return every
\* node's state and engagement in the caller's graph are those of the last
\* snapshot; receptiveness, extraversion, weights and edges are unchanged.
C13_InPlace ==
    /\ [](cfg.entry = "simulation" => (target = "G" /\ G_zero = <<>>))
    /\ []((cfg.entry = "simulation" /\ pc = "done") =>
            /\ \A i \in 1..Len(G.nodes) :
                 LET last == graph_list[Len(graph_list)][i][2]
                     v == G.nodes[i]
                 IN  /\ G.data[v].state = last.state
                     /\ G.data[v].engagement = last.engagement
                     /\ G.data[v].receptiveness = G_call.data[v].receptiveness
                     /\ G.data[v].extraversion = G_call.data[v].extraversion
            /\ G.weight = G_call.weight
            /\ G.adj = G_call.adj)
    /\ [][(cfg.entry = "simulation" /\ pc = "step_nb" /\ pc' # "error") =>
            \E d \in DrawSet :
               G' = NeighbourVisit(G, CurNode, CurNeighbour, d, cfg)]_vars

\* a direct call of simulation has returned and the caller's graph holds
\* states and engagement values it did not hold before the call
C13_Witness ==
    /\ cfg.entry = "simulation"
    /\ pc = "done"
    /\ \E v \in NodesOf(G) : G.data[v].state # G_call.data[v].state
    /\ \E v \in NodesOf(G) : G.data[v].engagement # G_call.data[v].engagement
    /\ Snapshot(G) = graph_list[Len(graph_list)]


\* C14 as stated: with kernel = 'custom' and no custom_kernel the call is
\* rejected at the call boundary, for every input graph: it never returns
\* normally, and no node state or engagement is changed (no draw is made)
\* before the error is raised.
C14_FailFast ==
    (cfg.kernel = "custom" /\ cfg.custom_kernel = "None") =>
        /\ pc # "done"
        /\ G = G_call


\* C15 as stated: simulation called with n < 1 (n = 0 and every negative n)
\* ends in an error: it never returns normally, and no simulation step is
\* executed.
C15_HorizonRejected ==
    (cfg.entry = "simulation" /\ cfg.n < 1) =>
        /\ pc # "done"
        /\ pc \notin {"step_node", "step_nb"}
        /\ i_sim = 0


\* C16 as stated: optimize_rs called with number_of_nodes greater than the
\* number of nodes of G fails with an error before the caller's graph is
\* mutated: it does not return, and after the failure every node's state in
\* the caller's G equals its state before the call.
C16_OversampleLeavesGraph ==
    (cfg.entry = "optimize_rs" /\ cfg.number_of_nodes > Len(G_call.nodes)) =>
        /\ pc # "done"
        /\ pc = "error" =>
              \A v \in NodesOf(G) : G.data[v].state = G_call.data[v].state


\* the end of execution th when it runs alone from its current position,
\* nb the value of the module global
RECURSIVE C17_RunAlone(_, _, _)
C17_RunAlone(th, nb, c) ==
    IF Finished(th) THEN th
    ELSE IF th.pc = "node" THEN C17_RunAlone(ThreadNode(th, c), nb, c)
    ELSE IF th.pc = "next"
         THEN C17_RunAlone(ThreadNext(th), ForTarget(th, 0, nb), c)
    ELSE C17_RunAlone(ThreadVisit(th, nb, c), nb, c)

\* C17 as stated: trials are safe to run in parallel without locking: when
\* two simulation_step executions run concurrently in one process on
\* distinct graph copies, no execution reads a variable written by another,
\* and under every interleaving each execution ends with the graph (and
\* exception, and draws consumed) it would end with running alone on the
\* same draws.
C17_ParallelSafe ==
    /\ [][\A t \in DOMAIN thr :
            (thr[t].pc = "visit" /\ thr'[t] # thr[t]) =>
                (global_neighbour # <<>> /\ global_neighbour[2] = t)]_vars
    /\ [](\A t \in DOMAIN thr :
            Finished(thr[t]) =>
               LET alone == C17_RunAlone(ThreadStart(thr[t].g0, thr[t].draws),
                                         <<>>, cfg)
               IN  /\ thr[t].g = alone.g
                   /\ thr[t].error = alone.error
                   /\ thr[t].used = alone.used)


\* C18: nodes_score_simulation returns exactly one score per node of G, in
\* node-id order, the i-th score being the result of the simulation_sequence
\* call made with node i alone Aware and every other node Unaware: the call
\* for node i is made on such a graph, every trial of it starts from that
\* graph, and its result is appended as element i of the list.
C18_OneScorePerNode ==
    /\ []((cfg.entry = "nodes_score_simulation" /\ pc = "done") =>
            Len(list_solution) = Len(G.nodes))
    /\ []((cfg.entry = "nodes_score_simulation"
             /\ pc \in {"seq_loop", "seq_append", "nss_append"}) =>
            /\ Len(list_solution) = i_nss
            /\ AwareSet(G) = {i_nss}
            /\ \A k \in 1..Len(trial_start) : AwareSet(trial_start[k]) = {i_nss})
    /\ [][(cfg.entry = "nodes_score_simulation" /\ pc = "nss_append") =>
            /\ Len(trial_start) = cfg.sequence_len
            /\ Len(list_solution') = i_nss + 1
            /\ list_solution'[i_nss + 1] = avg_aware_inc
            /\ \A k \in 1..i_nss : list_solution'[k] = list_solution[k]]_vars

\* the call has returned three scores, not all equal, for a graph that had
\* other nodes Aware at the call
C18_Witness ==
    /\ cfg.entry = "nodes_score_simulation"
    /\ pc = "done"
    /\ Len(list_solution) = 3
    /\ list_solution[1] # list_solution[2]
    /\ list_solution[3] # <<0, 1>>
    /\ AwareSet(G_call) = {0, 2}


\* weight(s,r) x receptiveness(r) x engagement(r) x extraversion(s) x
\* WERE_multiplier for sender s and receiver r, the four factors in
\* millionths, and the scale Unit^4 of that product
C19_Product(s, r) ==
    BigMul(BigMul(BigMul(Big(Cur.weight[<<s, r>>]),
                         Big(Cur.data[r].receptiveness)),
                  BigMul(Big(Cur.data[r].engagement),
                         Big(Cur.data[s].extraversion))),
           Big(cfg.WERE_multiplier))

C19_Scale == BigMul(BigMul(Big(Unit), Big(Unit)), BigMul(Big(Unit), Big(Unit)))

\* draw d (in millionths) is below the product
C19_Below(d, s, r) ==
    BigLess(BigMul(Big(d), C19_Scale), BigMul(C19_Product(s, r), Big(Unit)))

\* C19: with kernel 'WERE', when Aware sender s visits Unaware receiver r the
\* probability used is weight(s,r) x receptiveness(r) x engagement(r) x
\* extraversion(s) x WERE_multiplier, uncapped: r becomes Aware exactly when
\* the draw is below that product, so whenever the product is >= 1 r becomes
\* Aware for every draw in [0,1).
C19_WEREKernel ==
    [][(/\ cfg.kernel = "WERE"
        /\ pc = "step_nb"
        /\ Cur.data[CurNeighbour].state = "unaware") =>
          LET s == CurNode
              r == CurNeighbour
          IN  /\ Cur.data[s].state = "aware"
              /\ KernelProb(Cur, s, r, cfg).den = C19_Scale
              /\ BigNorm(KernelProb(Cur, s, r, cfg).num) = BigNorm(C19_Product(s, r))
              /\ Cur'.data[r].state = "aware" =>
                    \E d \in DrawSet : C19_Below(d, s, r)
              /\ Cur'.data[r].state = "unaware" =>
                    \E d \in DrawSet : ~C19_Below(d, s, r)
              /\ ~BigLess(C19_Product(s, r), C19_Scale) =>
                    Cur'.data[r].state = "aware"]_vars

\* a step with kernel 'WERE' has returned in which sender 0 made receiver 1
\* Aware with probability 0.5 x 1.0 x 0.5 x 1.0 x 10 = 2.5, which with the
\* roles exchanged would be 0.24
C19_Witness ==
    /\ cfg.kernel = "WERE"
    /\ cfg.entry = "simulation_step"
    /\ cfg.oblivion = FALSE
    /\ pc = "done"
    /\ AwareSet(G_call) = {0}
    /\ G.weight[<<0, 1>>] = 500000
    /\ G.data[1].state = "aware"


\* x is strictly greater than 0 and at most 1, in millionths
C20_InRange(x) == x > 0 /\ x <= Unit

\* C20: the graph graph_init returns has exactly n nodes, every node's state
\* is 'aware' or 'unaware', and every edge weight and every node's
\* receptiveness, extraversion and engagement is strictly greater than 0 and
\* at most 1.
C20_GraphInitRanges ==
    (cfg.entry = "graph_init" /\ pc = "done") =>
        /\ Len(G.nodes) = cfg.n
        /\ Cardinality(NodesOf(G)) = cfg.n
        /\ \A v \in NodesOf(G) :
              /\ G.data[v].state \in {"aware", "unaware"}
              /\ C20_InRange(G.data[v].receptiveness)
              /\ C20_InRange(G.data[v].extraversion)
              /\ C20_InRange(G.data[v].engagement)
        /\ DOMAIN G.weight # {}
        /\ \A p \in DOMAIN G.weight : C20_InRange(G.weight[p])

\* a graph of 4 nodes has been returned that holds an Aware node, a weight
\* and a trait replaced by 0.000001, and a weight and a trait scaled to 1
C20_Witness ==
    /\ cfg.entry = "graph_init"
    /\ pc = "done"
    /\ cfg.n = 4
    /\ AwareSet(G) # {}
    /\ \E p, q \in DOMAIN G.weight : G.weight[p] = Epsilon /\ G.weight[q] = Unit
    /\ \E v, u \in NodesOf(G) :
          G.data[v].receptiveness = Epsilon /\ G.data[u].receptiveness = Unit


\* the attributes node v had when the running step began: those of the
\* call for a direct simulation_step, those of the last snapshot inside
\* simulation
C21_AtStepStart(v) ==
    IF cfg.entry = "simulation_step" THEN G_call.data[v]
    ELSE LET last == graph_list[Len(graph_list)]
         IN  last[CHOOSE i \in 1..Len(last) : last[i][1] = v][2]

\* C21 as stated: within one simulation_step the oblivion phase precedes
\* the propagation phase: a node forgets (and has its engagement changed by
\* the oblivion path) only if it was Aware when the step began.
C21_Original ==
    [][\A v \in NodeSet :
         (pc \in {"step_node", "step_nb"} /\ Forgets(v)) =>
             C21_AtStepStart(v).state = "aware"]_vars

\* C21 amended: the step is one sweep over the nodes.  When a node is
\* processed, its oblivion decision is taken first, only if the node is
\* Aware at that moment, and changes no other node; its propagation follows
\* and makes no node forget.  The oblivion decisions of later nodes come
\* after the propagation of earlier nodes, so a node Unaware at the start
\* of the step that an earlier node awakened can forget in the same step.
C21_PerNodeOrder ==
    /\ [][\A v \in NodeSet :
            Forgets(v) => (pc = "step_node" /\ nbidx = 0 /\ CurNode = v)]_vars
    /\ []((pc = "step_node" /\ nidx <= Len(Cur.nodes)
             /\ Cur.data[CurNode].state = "unaware") =>
            \A random_factor, r2 \in DrawSet :
               OblivionPhase(Cur, CurNode, random_factor, r2, cfg.oblivion,
                             cfg.engagement_enforcement) = Cur)
    /\ [][(pc = "step_node" /\ nidx <= Len(Cur.nodes)) =>
            /\ \A u \in NodeSet \ {CurNode} : Cur'.data[u] = Cur.data[u]
            /\ Cur.data[CurNode].state = "unaware" => Cur' = Cur]_vars

\* a step has returned in which node 1, Unaware at the start, was awakened
\* by node 0 and then forgot: it is Unaware with the engagement the oblivion
\* path wrote
C21_Witness ==
    /\ cfg.entry = "simulation_step"
    /\ pc = "done"
    /\ cfg.oblivion = TRUE
    /\ cfg.engagement_enforcement = 150
    /\ AwareSet(G_call) = {0}
    /\ G.data[1].state = "unaware"
    /\ G.data[1].engagement = 750000
    /\ G.data[2] = G_call.data[2]


\* the place of node v in the iteration order of the live graph
C22_Pos(v) == CHOOSE i \in 1..Len(Cur.nodes) : Cur.nodes[i] = v

RECURSIVE C23_Times(_, _, _)
C23_Times(e, enf, d) ==
    IF d = 0 THEN e ELSE C23_Times(Round6Mul(e, enf), enf, d - 1)

C24_CountExhaustion ==
    /\ [](pc = "sim_count" =>
            (i_sim = cfg.n /\ Len(graph_list) = cfg.n + 1))
    /\ [](pc = "done" => i_opt = cfg.number_of_iter)
    /\ [][(pc = "step_node" /\ nidx > Len(Cur.nodes) /\ i_sim + 1 < cfg.n) =>
            (pc' = "step_node" /\ nidx' = 1 /\ i_sim' = i_sim + 1)]_vars
    /\ <>(pc \in {"done", "error"})

\* the second iteration of a search has run both steps of a two-step
\* simulation although every node was Aware in every snapshot
C24_Witness ==
    /\ pc = "sim_count"
    /\ cfg.n = 2
    /\ i_opt = 1
    /\ i_sim = 2
    /\ \A j \in 1..Len(graph_list) : AwareCount(graph_list[j]) = 3


\* C25: snapshots are immutable after capture.  While simulation runs, the
\* snapshot list only grows and no step changes an entry it already holds;
\* a captured entry holds every node's state and traits at that instant;
\* and the first entry keeps the values the graph had at the call.
C25_SnapshotsImmutable ==
    /\ [][(pc \in {"step_node", "step_nb", "sim_count"}) =>
            (/\ Len(graph_list') >= Len(graph_list)
             /\ \A j \in 1..Len(graph_list) :
                   graph_list'[j] = graph_list[j])]_vars
    /\ [][(pc = "step_node" /\ nidx > Len(Cur.nodes)
             /\ cfg.entry = "simulation") =>
            (/\ Len(graph_list') = Len(graph_list) + 1
             /\ \A i \in 1..Len(Cur.nodes) :
                   graph_list'[Len(graph_list')][i] =
                       <<Cur.nodes[i], Cur.data[Cur.nodes[i]]>>)]_vars
    /\ []((cfg.entry = "simulation" /\ pc # "sim_call") =>
            /\ Len(graph_list) >= 1
            /\ \A i \in 1..Len(G_call.nodes) :
                  graph_list[1][i] =
                      <<G_call.nodes[i], G_call.data[G_call.nodes[i]]>>)

\* a simulation of two steps has returned with three snapshots that differ
\* from one another; the last one shows the live graph
C25_Witness ==
    /\ cfg.entry = "simulation"
    /\ pc = "done"
    /\ Len(graph_list) = 3
    /\ graph_list[1] # graph_list[2]
    /\ graph_list[2] # graph_list[3]
    /\ graph_list[1] # graph_list[3]
    /\ \A i \in 1..Len(G.nodes) :
          graph_list[3][i] = <<G.nodes[i], G.data[G.nodes[i]]>>


\* node v turns from Unaware to Aware in this step of the model
C26_Awakens(v) ==
    /\ Cur.data[v].state = "unaware"
    /\ Cur'.data[v].state = "aware"

\* the nodes joined to the nodes of S by an edge, together with S
C26_Grow(g, S) ==
    S \cup {u \in DOMAIN g.adj :
              \E i \in 1..Len(g.adj[u]) : g.adj[u][i] \in S}

\* the connected component of node v
RECURSIVE C26_Closure(_, _, _)
C26_Closure(g, S, k) ==
    IF k = 0 THEN S ELSE C26_Closure(g, C26_Grow(g, S), k - 1)

C26_Component(g, v) == C26_Closure(g, {v}, Len(g.nodes))

\* C26: an Unaware node becomes Aware only in the visit by a neighbour that
\* is Aware at that moment.  Hence a graph with no Aware node is a fixed
\* point (no node changes, no neighbour is visited, no oblivion draw is
\* made, the average increment is 0), and a node whose connected component
\* holds no Aware node at the call stays Unaware.
C26_LocalAwakening ==
    /\ [][\A v \in NodeSet :
            C26_Awakens(v) =>
                /\ pc = "step_nb"
                /\ CurNeighbour = v
                /\ Cur.data[CurNode].state = "aware"
                /\ \E i \in 1..Len(Cur.adj[v]) : Cur.adj[v][i] = CurNode]_vars
    /\ [](AwareSet(G_call) = {} =>
            /\ G = G_call
            /\ pc # "step_nb"
            /\ (pc = "step_node" /\ nidx <= Len(Cur.nodes)) =>
                  OblivionDraws(Cur, CurNode, cfg.oblivion) = {0}
            /\ (pc = "done" /\ cfg.entry = "simulation") =>
                  avg_aware_inc_per_step = <<0, 1>>)
    /\ [](\A v \in NodeSet :
            (C26_Component(G_call, v) \cap AwareSet(G_call) = {}) =>
                G.data[v].state = "unaware")

\* a simulation of two steps has returned on the graph with the one edge
\* 0-1: nodes 0 and 1 went from one Aware node to two, node 2 in its own
\* component is Unaware as at the call
C26_Witness ==
    /\ cfg.entry = "simulation"
    /\ pc = "done"
    /\ cfg.n = 2
    /\ C26_Component(G_call, 2) = {2}
    /\ AwareSet(G_call) = {0}
    /\ AwareSet(G) = {0, 1}


\* the Aware nodes of a snapshot
C27_AwareOf(snap) ==
    {snap[i][1] : i \in {j \in 1..Len(snap) : snap[j][2].state = "aware"}}

\* C27: with oblivion disabled the Aware set of each snapshot is a subset
\* of that of the next one, so the average increment of a simulation, the
\* increments and the mean of simulation_sequence and every candidate
\* score of optimize_rs are >= 0.
C27_MonotoneWithoutOblivion ==
    cfg.oblivion = FALSE =>
        /\ \A j \in 1..(Len(graph_list) - 1) :
              C27_AwareOf(graph_list[j]) \subseteq C27_AwareOf(graph_list[j + 1])
        /\ avg_aware_inc_per_step # <<>> =>
              RatLeq(<<0, 1>>, avg_aware_inc_per_step)
        /\ \A j \in 1..Len(avg_inc) : RatLeq(<<0, 1>>, avg_inc[j])
        /\ avg_aware_inc # <<>> => RatLeq(<<0, 1>>, avg_aware_inc)
        /\ \A e \in evaluated : RatLeq(<<0, 1>>, e[2])

\* a search without oblivion has scored a candidate with a mean above 0
\* that is not a whole number, over two trials of two steps each
C27_Witness ==
    /\ cfg.oblivion = FALSE
    /\ cfg.n = 2
    /\ cfg.sequence_len = 2
    /\ pc = "done"
    /\ \E e \in evaluated : RatLess(<<0, 1>>, e[2]) /\ e[2][2] # 1


\* C28 as stated: when optimize_rs returns after at least one iteration, the
\* returned seed list is one of the seed lists sampled during the search and
\* holds exactly number_of_nodes distinct node ids, also when no candidate
\* scored above 0.
C28_ReturnsSampledSet ==
    (pc = "done" /\ cfg.number_of_iter >= 1) =>
        /\ \E c \in evaluated : c[1] = best_solution[2]
        /\ Len(best_solution[2]) = cfg.number_of_nodes
        /\ \A a, b \in 1..Len(best_solution[2]) :
              a # b => best_solution[2][a] # best_solution[2][b]
        /\ \A a \in 1..Len(best_solution[2]) : best_solution[2][a] \in NodeSet


\* graph g equals the graph of the call in its nodes, edges, edge weights
\* and every node's receptiveness, extraversion and engagement
C29_SameButStates(g) ==
    /\ g.nodes = G_call.nodes
    /\ g.adj = G_call.adj
    /\ g.weight = G_call.weight
    /\ \A v \in NodeSet :
          /\ g.data[v].receptiveness = G_call.data[v].receptiveness
          /\ g.data[v].extraversion = G_call.data[v].extraversion
          /\ g.data[v].engagement = G_call.data[v].engagement

\* C29: optimize_rs changes only the node states of the caller's graph.
\* Throughout a call that does not raise, and so at its return, the edge
\* weights and every node's traits equal their pre-call values; from the
\* first sample on, the Aware nodes of the caller's graph are exactly the
\* seed list sampled last, so each iteration's trials start from the
\* pre-call graph with only that iteration's seeds Aware.
C29_OnlyStatesChange ==
    pc # "error" =>
        /\ C29_SameButStates(G)
        /\ (pc = "opt_loop" /\ i_opt = 0) => G = G_call
        /\ ~(pc = "opt_loop" /\ i_opt = 0) =>
              AwareSet(G) =
                  {infected_agents_id[j] : j \in 1..Len(infected_agents_id)}
        /\ (pc = "done" /\ cfg.number_of_iter >= 1) =>
              Cardinality(AwareSet(G)) = cfg.number_of_nodes
        /\ (pc = "sim_call" /\ i_seq = 0) =>
              (C29_SameButStates(G_zero[1]) /\ AwareSet(G_zero[1]) = AwareSet(G))

\* a search of two iterations with engagement_enforcement = 1.5 has
\* returned: the trials changed engagements on their copies, the caller's
\* graph marks the last sample, which is neither the returned best seed
\* list nor the states passed in
C29_Witness ==
    /\ pc = "done"
    /\ cfg.number_of_iter = 2
    /\ cfg.engagement_enforcement = 150
    /\ cfg.number_of_nodes = 1
    /\ <<best_solution[2], best_solution[1]>> \in evaluated
    /\ AwareSet(G) # {best_solution[2][j] : j \in 1..Len(best_solution[2])}
    /\ AwareSet(G) # AwareSet(G_call)
    /\ G_zero = <<>>


\* graph g has the nodes, the edges, the edge weights and every node's
\* receptiveness and extraversion of the graph of the call
C30_Frame(g) ==
    /\ g.nodes = G_call.nodes
    /\ g.adj = G_call.adj
    /\ g.weight = G_call.weight
    /\ \A v \in NodeSet :
          /\ g.data[v].receptiveness = G_call.data[v].receptiveness
          /\ g.data[v].extraversion = G_call.data[v].extraversion

\* engagement value e lies in (0, 1]
C30_InUnitRange(e) == e > 0 /\ e <= Unit * resolution

\* C30 as stated: simulation_step changes only 'state' and 'engagement',
\* and with engagement_enforcement = 1 and engagement values in (0, 1] it
\* changes only 'state'.
C30_Original ==
    /\ C30_Frame(G)
    /\ (/\ cfg.engagement_enforcement = 100
        /\ \A v \in NodeSet : C30_InUnitRange(G_call.data[v].engagement)) =>
           \A v \in NodeSet :
              G.data[v].engagement = G_call.data[v].engagement

\* C30 amended: simulation_step changes only 'state' and 'engagement'.
\* With engagement_enforcement = 1 the engagement of a node whose value
\* lies in (0, 1] and carries at most six decimals never changes; a value
\* in (0, 1] with more decimals either is as at the call or has been
\* rounded to six decimals by np.round.
C30_OnlyStateAtSixDecimals ==
    /\ C30_Frame(G)
    /\ cfg.engagement_enforcement = 100 =>
          \A v \in NodeSet :
             LET e0 == G_call.data[v].engagement
                 e == G.data[v].engagement
             IN  C30_InUnitRange(e0) =>
                    /\ e0 % resolution = 0 => e = e0
                    /\ \/ e = e0
                       \/ (e % resolution = 0
                             /\ 2 * Abs(e - e0) <= resolution)

\* one step with engagement_enforcement = 1 has returned: states changed,
\* node 1 (engagement 0.5, visited by its Aware neighbour 0) kept its
\* engagement, and node 0 (engagement 0.1234567) was rounded to 0.123457
C30_Witness ==
    /\ cfg.entry = "simulation_step"
    /\ pc = "done"
    /\ cfg.engagement_enforcement = 100
    /\ cfg.oblivion = FALSE
    /\ AwareSet(G_call) = {0, 1}
    /\ AwareSet(G) # AwareSet(G_call)
    /\ G.data[1].engagement = 5000000
    /\ G.data[0].engagement = 1234570


====
